---- MODULE Spec2Model ----
(***************************************************************************)
(* Model of the page-side TON Connect bridge                               *)
(* (src/src/extension/pageScript/TonConnect.ts), of the SafetyRules screen  *)
(* and of the day grouping of the activity list                            *)
(* (src/src/components/auth/SafetyRules.tsx).                              *)
(*                                                                         *)
(* JavaScript runs one task at a time.  A bridge method runs without       *)
(* interruption up to its first await; the part after the await runs as a  *)
(* later task, when the transport has settled the request.  emit() calls   *)
(* the listeners synchronously, so while a dispatch is running the only    *)
(* code that executes is the code of the listener being called: it may     *)
(* call listen, an unsubscribe function, connect, restoreConnection or     *)
(* send, it may return, and it may throw.  onDisconnect is called by the   *)
(* privileged side and beforeunload is fired by the browser, each as a     *)
(* task of its own.                                                        *)
(***************************************************************************)
EXTENDS Integers, Sequences, FiniteSets, TLC

VARIABLES
  navigator,        \* window.navigator: [platform, userAgent]
  lastGeneratedId,  \* TonConnect.lastGeneratedId
  callbacks,        \* TonConnect.callbacks, in registration order
  issued,           \* callbacks whose unsubscribe closure the page holds
  unloadListeners,  \* number of beforeunload registrations of unloadEventListener
  calls,            \* the calls of connect/restoreConnection/send/onDisconnect, in call order
  requests,         \* the requests handed to apiConnector.request, in order
  unsubscribed,     \* callbacks whose closure was invoked since they were last registered
  dispatch,         \* the latest run of emit(): the array forEach walks and how far it got
  unloaded,         \* the browser has fired beforeunload: the page is gone
  \* SafetyRules
  writedownAccepted,   \* useState(false)
  openWalletAccepted,  \* useState(false)
  canBeStolenAccepted, \* useState(false)
  clicks,              \* the clicks on the button: the boxes as they were, and what happened
  submits,             \* the number of calls of onSubmit
  \* Activity: the grouping loop of the transactions memo
  allTransactions,     \* the filtered transactions
  groupedTransactions, \* the array of groups
  currentDateGroup,    \* the position in groupedTransactions of the group it refers to
  index,               \* the index forEach has reached
  transactions         \* the value of the memo, once it has returned

bridgeVars == <<navigator, lastGeneratedId, callbacks, issued, unsubscribed, dispatch,
                unloadListeners, calls, requests, unloaded>>

safetyVars == <<writedownAccepted, openWalletAccepted, canBeStolenAccepted, clicks, submits>>

activityVars == <<allTransactions, groupedTransactions, currentDateGroup, index,
                  transactions>>

vars == <<bridgeVars, safetyVars, activityVars>>

----------------------------------------------------------------------------
(* Bounds *)

MaxCalls == 2
MaxListeners == 1

(* Bounds of the specification with the wider registry. *)
MaxEvents == 2
MaxRegistered == 3

(* Bound of the SafetyRules specification. *)
MaxClicks == 2

(* Bounds of the Activity specification: the number of transactions, and the *)
(* length of a day in the time unit of the timestamps.                       *)
MaxTransactions == 3
DayLength == 2

(* Timestamps over two days and a part of a third. *)
Timestamps == 0..(2 * DayLength)

(* The identities of the callbacks the page may register. *)
Callbacks == {"cbA"}

AllCallbacks == Callbacks \cup {"cbB", "cbC"}

(* Versions a page may ask for, around TONCONNECT_VERSION. *)
Versions == {2, 3}

(* Application messages passed to send. *)
Messages == {[method |-> "sendTransaction", id |-> 7],
             [method |-> "disconnect", id |-> 9]}

ConnectRequests == {[manifestUrl |-> "https://app/manifest.json"]}

Navigators == {[platform |-> "MacIntel", userAgent |-> "Mozilla/5.0 (Macintosh)"],
               [platform |-> "Linux armv8l", userAgent |-> "Mozilla/5.0 (Linux; Android 13)"]}

----------------------------------------------------------------------------
(* Sequences *)

Range(s) == {s[i] : i \in 1..Len(s)}

(* A filter whose result is dropped: the registry keeps every callback. *)
FilterNothing(s, callback) == s

(* splice(indexOf(callback), 1): the first registration of callback goes, and *)
(* the last element goes when callback is not registered.                     *)
FilterSplice(s, callback) ==
  IF s = <<>> THEN <<>>
  ELSE IF \E i \in 1..Len(s) : s[i] = callback
       THEN LET i == CHOOSE j \in 1..Len(s) :
                       s[j] = callback /\ \A h \in 1..(j - 1) : s[h] # callback
            IN SubSeq(s, 1, i - 1) \o SubSeq(s, i + 1, Len(s))
       ELSE SubSeq(s, 1, Len(s) - 1)

RECURSIVE Filter(_, _)
(* Array.prototype.filter with the predicate (cb) => cb !== callback *)
Filter(s, callback) ==
  IF s = <<>> THEN <<>>
  ELSE IF Head(s) # callback
       THEN <<Head(s)>> \o Filter(Tail(s), callback)
       ELSE Filter(Tail(s), callback)

----------------------------------------------------------------------------
(* Protocol constants *)

TONCONNECT_VERSION == 2

UNKNOWN_ERROR == 0
BAD_REQUEST_ERROR == 1

(* An optional argument that was not passed. *)
NoCode == -1

DefaultMsg == "Unknown error"

NoEvent == [event |-> "none"]

NoMessage == [method |-> "none", id |-> 0]

----------------------------------------------------------------------------
(* Device descriptor *)

macosPlatforms == {"macOS", "Macintosh", "MacIntel", "MacPPC", "Mac68K"}
windowsPlatforms == {"Win32", "Win64", "Windows", "WinCE"}
iphonePlatforms == {"iPhone"}
ipadPlatforms == {"iPad", "iPod"}

(* /Android/.test(userAgent) and /Linux/.test(platform) on the modelled strings *)
HasAndroid(userAgent) == userAgent \in {"Mozilla/5.0 (Linux; Android 13)"}
HasLinux(platform) == platform \in {"Linux armv8l", "Linux x86_64"}

getPlatform(nav) ==
  IF nav.platform \in macosPlatforms THEN "mac"
  ELSE IF nav.platform \in iphonePlatforms THEN "iphone"
  ELSE IF nav.platform \in ipadPlatforms THEN "ipad"
  ELSE IF nav.platform \in windowsPlatforms THEN "windows"
  ELSE IF HasAndroid(nav.userAgent) THEN "linux"
  ELSE IF HasLinux(nav.platform) THEN "linux"
  ELSE "undefined"

getDeviceInfo(nav) ==
  [platform |-> getPlatform(nav),
   appName |-> "MyTonWallet",
   appVersion |-> "packageJson.version",
   maxProtocolVersion |-> TONCONNECT_VERSION,
   features |-> <<"SendTransaction", [name |-> "SendTransaction", maxMessages |-> 4]>>]

(* A device descriptor the privileged side may have put into its response. *)
StaleDevice ==
  [platform |-> "windows",
   appName |-> "MyTonWallet",
   appVersion |-> "0.0.0",
   maxProtocolVersion |-> 1,
   features |-> <<"SendTransaction", [name |-> "SendTransaction", maxMessages |-> 1]>>]

----------------------------------------------------------------------------
(* Events and responses *)

(* code || CONNECT_EVENT_ERROR_CODES.UNKNOWN_ERROR *)
OrUnknown(code) == IF code = NoCode \/ code = 0 THEN UNKNOWN_ERROR ELSE code

buildConnectError(id, msg, code) ==
  [event |-> "connect_error",
   id |-> id,
   payload |-> [code |-> OrUnknown(code), message |-> msg]]

(* What apiConnector.request may settle a connect or reconnect request with:  *)
(* a rejection, no value, or an event of the privileged side for that id.     *)
ConnectOutcomes(id) ==
  {[kind |-> "reject", value |-> NoEvent],
   [kind |-> "none", value |-> NoEvent],
   [kind |-> "value",
    value |-> [event |-> "connect", id |-> id,
               payload |-> [items |-> "ton_addr"]]],
   [kind |-> "value",
    value |-> [event |-> "connect", id |-> id,
               payload |-> [items |-> "ton_addr", device |-> StaleDevice]]],
   [kind |-> "value",
    value |-> [event |-> "connect_error", id |-> id,
               payload |-> [code |-> 300, message |-> "User rejected"]]]}

(* What apiConnector.request may settle the request of send(message) with. *)
SendOutcomes(message) ==
  {[kind |-> "reject", value |-> NoEvent],
   [kind |-> "none", value |-> NoEvent],
   [kind |-> "value", value |-> [result |-> "boc", id |-> message.id]],
   [kind |-> "value",
    value |-> [error |-> [code |-> 1, message |-> "Bad request"], id |-> message.id]]}

(* The device of the response is kept when the response carries one. *)
SetDeviceIfMissing(response, nav) ==
  [response EXCEPT !.payload =
     [f \in DOMAIN response.payload \cup {"device"} |->
        IF f = "device" /\ f \notin DOMAIN response.payload
        THEN getDeviceInfo(nav)
        ELSE response.payload[f]]]

(* response.payload.device = getDeviceInfo() *)
SetDevice(response, nav) ==
  [response EXCEPT !.payload =
     [f \in DOMAIN response.payload \cup {"device"} |->
        IF f = "device" THEN getDeviceInfo(nav) ELSE response.payload[f]]]

(* The response of connect/restoreConnection after the 'connect' branch. *)
Decorated(outcome, nav) ==
  IF outcome.kind = "value" /\ outcome.value.event = "connect"
  THEN SetDevice(outcome.value, nav)
  ELSE outcome.value

(* response || TonConnect.buildConnectError(id) *)
ConnectResult(outcome, id, nav) ==
  IF outcome.kind = "value"
  THEN Decorated(outcome, nav)
  ELSE buildConnectError(id, DefaultMsg, NoCode)

(* The error response numbered from the bridge's counter. *)
SendResultFreshId(outcome, message) ==
  IF outcome.kind = "value"
  THEN outcome.value
  ELSE [error |-> [code |-> 0, message |-> "Unknown error"], id |-> lastGeneratedId + 1]

(* response || { error: { code: 0, message: 'Unknown error' }, id } *)
SendResult(outcome, message) ==
  IF outcome.kind = "value"
  THEN outcome.value
  ELSE [error |-> [code |-> 0, message |-> "Unknown error"], id |-> message.id]

----------------------------------------------------------------------------
(* The page-unload listener *)

(* window.removeEventListener('beforeunload', this.unloadEventListener):      *)
(* the DOM drops the registration of that function, if there is one.          *)
removeEventListeners(n) == IF n > 0 THEN n - 1 ELSE n

(* A fresh closure registered on every successful connection: the DOM keeps  *)
(* them all.                                                                 *)
addEventListenersFresh(n) == n + 1

(* removeEventListeners(); window.addEventListener('beforeunload', ...):      *)
(* the DOM ignores a function that is already registered for the event.       *)
addEventListeners(n) ==
  LET removed == removeEventListeners(n)
  IN IF removed > 0 THEN removed ELSE removed + 1

----------------------------------------------------------------------------
(* State *)

protocolVersion == TONCONNECT_VERSION

EmptyPayload == [f \in {} |-> 0]

NoOutcome == [kind |-> "pending", value |-> NoEvent]

NoDispatch ==
  [caller |-> 0, event |-> NoEvent, snapshot |-> <<>>, delivered |-> <<>>,
   status |-> "none", removed |-> {}]

(* The name handed to the transport as it was passed to request(). *)
RequestNameBare(name) == name

(* `tonConnect_${name}` *)
RequestName(name) ==
  CASE name = "connect" -> "tonConnect_connect"
    [] name = "reconnect" -> "tonConnect_reconnect"
    [] name = "deactivate" -> "tonConnect_deactivate"
    [] name = "sendTransaction" -> "tonConnect_sendTransaction"
    [] name = "disconnect" -> "tonConnect_disconnect"

(* this.apiConnector.request({ name, args }); caller is the call it belongs to *)
request(name, args, caller) ==
  Append(requests, [name |-> RequestName(name), args |-> args, caller |-> caller])

(* The counter read without being advanced. *)
NextIdReused(lastId) == IF lastId = 0 THEN 1 ELSE lastId

(* ++this.lastGeneratedId *)
NextId(lastId) == lastId + 1

(* The version check off by one. *)
UnsupportedOffByOne(v) == v > protocolVersion + 1

(* protocolVersion > this.protocolVersion *)
Unsupported(v) == v > protocolVersion

(* The counter read again after the await. *)
CapturedIdLatest(c) == lastGeneratedId

(* const id, as the continuation of call c sees it *)
CapturedId(c) == calls[c].id

(* A continuation that waits for every earlier call to be settled first. *)
AwaitingInCallOrder(c) ==
  /\ calls[c].status = "awaiting"
  /\ \A i \in 1..(c - 1) : calls[i].status # "awaiting"

(* Call c is suspended at its await: its continuation runs when the          *)
(* transport settles its request, whatever the other calls are doing.        *)
Awaiting(c) == calls[c].status = "awaiting"

Running == dispatch.status = "running"

(* emit(event) up to the call of the first listener: forEach walks the array  *)
(* that this.callbacks holds now, over the length it has now.                 *)
BeginEmit(event, caller) ==
  [caller |-> caller,
   event |-> event,
   snapshot |-> callbacks,
   delivered |-> IF callbacks = <<>> THEN <<>> ELSE <<callbacks[1]>>,
   status |-> IF callbacks = <<>> THEN "done" ELSE "running",
   removed |-> unsubscribed]

RECURSIVE Distinct(_)
(* The callbacks of s, each at its first registration only. *)
Distinct(s) ==
  IF s = <<>> THEN <<>>
  ELSE <<Head(s)>> \o Distinct(Filter(Tail(s), Head(s)))

(* A walk that calls each callback once, however often it is registered. *)
DispatchListOnce(d) == Distinct(d.snapshot)

(* forEach walking whatever this.callbacks holds at each step. *)
DispatchListLive(d) == callbacks

(* The array forEach is walking in dispatch d. *)
DispatchList(d) == d.snapshot

(* A call record: missed holds the listeners registered when the call        *)
(* resolved without running emit; emitted counts its runs of emit.            *)
NewCall(op, id, v, message, status, result, missed) ==
  [op |-> op, id |-> id, ver |-> v, message |-> message, status |-> status,
   outcome |-> NoOutcome, result |-> result, emitted |-> 0, missed |-> missed]

(* new TonConnect(apiConnector) *)
Constructed ==
  /\ navigator \in Navigators
  /\ lastGeneratedId = 0
  /\ callbacks = <<>>
  /\ issued = {}
  /\ unsubscribed = {}
  /\ dispatch = NoDispatch
  /\ unloadListeners = 0
  /\ calls = <<>>
  /\ requests = <<>>
  /\ unloaded = FALSE

(* SafetyRules at its first render *)
Mounted ==
  /\ writedownAccepted = FALSE
  /\ openWalletAccepted = FALSE
  /\ canBeStolenAccepted = FALSE
  /\ clicks = <<>>
  /\ submits = 0

NoResult == [returned |-> FALSE, value |-> <<>>]

(* Activity before its memo has run, with the given filtered transactions *)
Unrendered(all) ==
  /\ allTransactions = all
  /\ groupedTransactions = <<>>
  /\ currentDateGroup = 0
  /\ index = -1
  /\ transactions = NoResult

Init == Constructed /\ Mounted /\ Unrendered(<<>>)

----------------------------------------------------------------------------
(* Operations of the page: at top level, or inside the listener that a       *)
(* running dispatch is calling.                                              *)

(* connect(protocolVersion, message), up to its return or its await *)
Connect(v, message) ==
  /\ LET id == NextId(lastGeneratedId)
         c == Len(calls) + 1
     IN /\ lastGeneratedId' = id
        /\ IF Unsupported(v)
           THEN /\ calls' = Append(calls,
                       NewCall("connect", id, v, NoMessage, "resolved",
                               buildConnectError(id, "Unsupported protocol version",
                                                 BAD_REQUEST_ERROR),
                               callbacks))
                /\ UNCHANGED requests
           ELSE /\ calls' = Append(calls,
                       NewCall("connect", id, v, NoMessage, "awaiting", NoEvent, <<>>))
                /\ requests' = request("connect", <<message, id>>, c)
  /\ UNCHANGED <<safetyVars, activityVars, navigator, callbacks, issued,
                 unsubscribed, dispatch, unloadListeners, unloaded>>

(* restoreConnection(), up to its await *)
RestoreConnection ==
  /\ LET id == NextId(lastGeneratedId)
         c == Len(calls) + 1
     IN /\ lastGeneratedId' = id
        /\ calls' = Append(calls,
               NewCall("restoreConnection", id, 0, NoMessage, "awaiting", NoEvent, <<>>))
        /\ requests' = request("reconnect", <<id>>, c)
  /\ UNCHANGED <<safetyVars, activityVars, navigator, callbacks, issued,
                 unsubscribed, dispatch, unloadListeners, unloaded>>

(* send(message), up to its await *)
Send(message) ==
  /\ calls' = Append(calls,
         NewCall("send", message.id, 0, message, "awaiting", NoEvent, <<>>))
  /\ requests' = request(message.method, <<message>>, Len(calls) + 1)
  /\ UNCHANGED <<safetyVars, activityVars, navigator, lastGeneratedId,
                 callbacks, issued, unsubscribed, dispatch, unloadListeners,
                 unloaded>>

(* this.callbacks.push(callback) *)
Push(s, callback) == Append(s, callback)

(* listen(callback) *)
Listen(callback) ==
  /\ callbacks' = Push(callbacks, callback)
  /\ issued' = issued \cup {callback}
  /\ unsubscribed' = unsubscribed \ {callback}
  /\ UNCHANGED <<safetyVars, activityVars, navigator, lastGeneratedId,
                 dispatch, unloadListeners, calls, requests, unloaded>>

(* the function returned by listen(callback) *)
Unsubscribe(callback) ==
  /\ callback \in issued
  /\ callbacks' = Filter(callbacks, callback)
  /\ unsubscribed' = unsubscribed \cup {callback}
  /\ UNCHANGED <<safetyVars, activityVars, navigator, lastGeneratedId, issued,
                 dispatch, unloadListeners, calls, requests, unloaded>>

----------------------------------------------------------------------------
(* Continuations and events of the environment: they start only when no      *)
(* other code is running.                                                    *)

(* The part of connect/restoreConnection after the await, up to the call of  *)
(* the first listener (or to the return, when nobody listens).  A rejected   *)
(* request makes the await throw: the call ends rejected.                    *)
AfterResponse(c, outcome) ==
  IF outcome.kind = "reject"
  THEN /\ calls' = [calls EXCEPT ![c].status = "rejected", ![c].outcome = outcome]
       /\ UNCHANGED <<unloadListeners, dispatch>>
  ELSE LET event == ConnectResult(outcome, CapturedId(c), navigator)
           d == BeginEmit(event, c)
       IN /\ unloadListeners' =
               IF outcome.kind = "value" /\ outcome.value.event = "connect"
               THEN addEventListeners(unloadListeners)
               ELSE unloadListeners
          /\ dispatch' = d
          /\ calls' = [calls EXCEPT
               ![c].outcome = outcome,
               ![c].emitted = @ + 1,
               ![c].status = IF d.status = "done" THEN "resolved" ELSE "emitting",
               ![c].result = IF d.status = "done" THEN event ELSE NoEvent]

ConnectResume(c, outcome) ==
  /\ ~Running
  /\ c \in 1..Len(calls)
  /\ calls[c].op = "connect"
  /\ Awaiting(c)
  /\ outcome \in ConnectOutcomes(calls[c].id)
  /\ AfterResponse(c, outcome)
  /\ UNCHANGED <<safetyVars, activityVars, navigator, lastGeneratedId,
                 callbacks, issued, unsubscribed, requests, unloaded>>

RestoreResume(c, outcome) ==
  /\ ~Running
  /\ c \in 1..Len(calls)
  /\ calls[c].op = "restoreConnection"
  /\ Awaiting(c)
  /\ outcome \in ConnectOutcomes(calls[c].id)
  /\ AfterResponse(c, outcome)
  /\ UNCHANGED <<safetyVars, activityVars, navigator, lastGeneratedId,
                 callbacks, issued, unsubscribed, requests, unloaded>>

(* The listener removed after every method. *)
IsDisconnectAlways(message) == TRUE

(* message.method === 'disconnect' *)
IsDisconnect(message) == message.method = "disconnect"

(* The part of send after the await. *)
SendResume(c, outcome) ==
  /\ ~Running
  /\ c \in 1..Len(calls)
  /\ calls[c].op = "send"
  /\ Awaiting(c)
  /\ outcome \in SendOutcomes(calls[c].message)
  /\ IF outcome.kind = "reject"
     THEN /\ calls' = [calls EXCEPT ![c].status = "rejected", ![c].outcome = outcome]
          /\ UNCHANGED unloadListeners
     ELSE /\ unloadListeners' =
               IF IsDisconnect(calls[c].message)
               THEN removeEventListeners(unloadListeners)
               ELSE unloadListeners
          /\ calls' = [calls EXCEPT
               ![c].outcome = outcome,
               ![c].status = "resolved",
               ![c].result = SendResult(outcome, calls[c].message)]
  /\ UNCHANGED <<safetyVars, activityVars, navigator, lastGeneratedId,
                 callbacks, issued, unsubscribed, dispatch, requests,
                 unloaded>>

(* onDisconnect(), called by the privileged side, up to the call of the first *)
(* listener (or to the return, when nobody listens).                          *)
OnDisconnect ==
  /\ ~Running
  /\ LET id == NextId(lastGeneratedId)
         c == Len(calls) + 1
         d == BeginEmit([event |-> "disconnect", id |-> id, payload |-> EmptyPayload], c)
         call == NewCall("onDisconnect", id, 0, NoMessage,
                         IF d.status = "done" THEN "resolved" ELSE "emitting",
                         NoEvent, <<>>)
     IN /\ lastGeneratedId' = id
        /\ dispatch' = d
        /\ calls' = Append(calls, [call EXCEPT !.emitted = 1])
        /\ unloadListeners' =
             IF d.status = "done"
             THEN removeEventListeners(unloadListeners)
             ELSE unloadListeners
  /\ UNCHANGED <<safetyVars, activityVars, navigator, callbacks, issued,
                 unsubscribed, requests, unloaded>>

(* The browser tears the page down and fires beforeunload:                   *)
(* unloadEventListener runs if it is registered.  Nothing runs afterwards.   *)
Unload ==
  /\ ~Running
  /\ unloaded' = TRUE
  /\ requests' = IF unloadListeners > 0
                 THEN request("deactivate", <<>>, 0)
                 ELSE requests
  /\ UNCHANGED <<safetyVars, activityVars, navigator, lastGeneratedId,
                 callbacks, issued, unsubscribed, dispatch, unloadListeners,
                 calls>>

----------------------------------------------------------------------------
(* The listener that a running dispatch is calling *)

(* onDisconnect returning right after emit, its last statement left out. *)
AfterEmitNoCleanup(c, event) ==
  /\ calls' = [calls EXCEPT
       ![c].status = "resolved",
       ![c].result = IF calls[c].op = "onDisconnect" THEN @ ELSE event]
  /\ UNCHANGED unloadListeners

(* What the caller of emit does once emit has returned. *)
AfterEmit(c, event) ==
  IF calls[c].op = "onDisconnect"
  THEN /\ unloadListeners' = removeEventListeners(unloadListeners)
       /\ calls' = [calls EXCEPT ![c].status = "resolved"]
  ELSE /\ calls' = [calls EXCEPT ![c].status = "resolved", ![c].result = event]
       /\ UNCHANGED unloadListeners

(* The listener returns: forEach calls the next one, or emit returns. *)
ListenerReturn ==
  /\ Running
  /\ LET k == Len(dispatch.delivered)
         list == DispatchList(dispatch)
     IN IF k < Len(dispatch.snapshot) /\ k < Len(list)
        THEN /\ dispatch' = [dispatch EXCEPT !.delivered = Append(@, list[k + 1])]
             /\ UNCHANGED <<calls, unloadListeners>>
        ELSE /\ dispatch' = [dispatch EXCEPT !.status = "done"]
             /\ AfterEmit(dispatch.caller, dispatch.event)
  /\ UNCHANGED <<safetyVars, activityVars, navigator, lastGeneratedId,
                 callbacks, issued, unsubscribed, requests, unloaded>>

(* Each listener called in a try/catch: the exception is dropped and the    *)
(* walk goes on.                                                             *)
InterruptedCaught(d) ==
  LET k == Len(d.delivered)
  IN IF k < Len(d.snapshot)
     THEN [d EXCEPT !.delivered = Append(@, d.snapshot[k + 1])]
     ELSE [d EXCEPT !.status = "done"]

(* forEach has no handler: the exception of a listener ends the walk. *)
Interrupted(d) == [d EXCEPT !.status = "thrown"]

(* The listener throws: forEach and emit end with the exception, and so does *)
(* the caller of emit.                                                       *)
ListenerThrow ==
  /\ Running
  /\ dispatch' = Interrupted(dispatch)
  /\ calls' = [calls EXCEPT ![dispatch.caller].status =
                 IF calls[dispatch.caller].op = "onDisconnect"
                 THEN "thrown" ELSE "rejected"]
  /\ UNCHANGED <<safetyVars, activityVars, navigator, lastGeneratedId,
                 callbacks, issued, unsubscribed, unloadListeners, requests,
                 unloaded>>

----------------------------------------------------------------------------

(* The page and the environment, within the bounds. *)
Next ==
  \/ ~unloaded /\ Len(calls) < MaxCalls /\ \E v \in Versions, m \in ConnectRequests : Connect(v, m)
  \/ ~unloaded /\ Len(calls) < MaxCalls /\ RestoreConnection
  \/ ~unloaded /\ Len(calls) < MaxCalls /\ \E m \in Messages : Send(m)
  \/ ~unloaded /\ Len(callbacks) < MaxListeners /\ \E cb \in Callbacks : Listen(cb)
  \/ ~unloaded /\ \E cb \in Callbacks : Unsubscribe(cb)
  \/ ~unloaded /\ \E c \in 1..Len(calls) :
                    \E o \in ConnectOutcomes(calls[c].id) : ConnectResume(c, o)
  \/ ~unloaded /\ \E c \in 1..Len(calls) :
                    \E o \in ConnectOutcomes(calls[c].id) : RestoreResume(c, o)
  \/ ~unloaded /\ \E c \in 1..Len(calls) :
                    \E o \in SendOutcomes(calls[c].message) : SendResume(c, o)
  \/ ~unloaded /\ Len(calls) < MaxCalls /\ OnDisconnect
  \/ ~unloaded /\ Unload
  \/ ~unloaded /\ ListenerReturn
  \/ ~unloaded /\ ListenerThrow

Spec == Init /\ [][Next]_vars

(* The same bridge with a wider registry, the events coming from            *)
(* onDisconnect alone.                                                       *)
NextRegistry ==
  \/ Len(callbacks) < MaxRegistered /\ \E cb \in AllCallbacks : Listen(cb)
  \/ \E cb \in AllCallbacks : Unsubscribe(cb)
  \/ Len(calls) < MaxEvents /\ OnDisconnect
  \/ ListenerReturn
  \/ ListenerThrow

SpecRegistry == Init /\ [][NextRegistry]_vars

----------------------------------------------------------------------------
(* The SafetyRules screen *)

(* The button enabled as soon as one box is checked. *)
canSubmitAny == writedownAccepted \/ openWalletAccepted \/ canBeStolenAccepted

(* const canSubmit = writedownAccepted && openWalletAccepted && canBeStolenAccepted *)
canSubmit == writedownAccepted /\ openWalletAccepted /\ canBeStolenAccepted

(* <Button ... isDisabled={!canSubmit}> *)
isDisabled == ~canSubmit

(* onChange of the first checkbox, and the render that follows *)
setWritedownAccepted(value) ==
  /\ writedownAccepted' = value
  /\ UNCHANGED <<openWalletAccepted, canBeStolenAccepted, clicks, submits,
                 bridgeVars, activityVars>>

(* onChange of the second checkbox, and the render that follows *)
setOpenWalletAccepted(value) ==
  /\ openWalletAccepted' = value
  /\ UNCHANGED <<writedownAccepted, canBeStolenAccepted, clicks, submits,
                 bridgeVars, activityVars>>

(* onChange of the third checkbox, and the render that follows *)
setCanBeStolenAccepted(value) ==
  /\ canBeStolenAccepted' = value
  /\ UNCHANGED <<writedownAccepted, openWalletAccepted, clicks, submits,
                 bridgeVars, activityVars>>

(* A click on the button: handleSubmit of the current render runs. *)
handleSubmit ==
  /\ clicks' = Append(clicks,
                 [writedown |-> writedownAccepted,
                  openWallet |-> openWalletAccepted,
                  canBeStolen |-> canBeStolenAccepted,
                  disabled |-> isDisabled,
                  invoked |-> canSubmit])
  /\ submits' = IF ~canSubmit THEN submits ELSE submits + 1
  /\ UNCHANGED <<writedownAccepted, openWalletAccepted, canBeStolenAccepted,
                 bridgeVars, activityVars>>

NextSafetyRules ==
  \/ \E value \in BOOLEAN : setWritedownAccepted(value)
  \/ \E value \in BOOLEAN : setOpenWalletAccepted(value)
  \/ \E value \in BOOLEAN : setCanBeStolenAccepted(value)
  \/ Len(clicks) < MaxClicks /\ handleSubmit

SpecSafetyRules == Init /\ [][NextSafetyRules]_vars

----------------------------------------------------------------------------
(* The day grouping of the activity list *)

(* The start of the day a timestamp falls in. *)
getDayStartAt(timestamp) == timestamp - (timestamp % DayLength)

(* The filtered transactions the memo may be given, in any order of time. *)
TransactionLists ==
  UNION {{[i \in 1..n |-> [txId |-> i, timestamp |-> f[i]]] : f \in [1..n -> Timestamps]}
           : n \in 0..MaxTransactions}

(* { datetime, transactions: [] } *)
NewGroup(datetime) == [datetime |-> datetime, transactions |-> <<>>]

(* A loop that never opens a second group. *)
StartsNewGroupNever(group, nextTransactionDayStartsAt) == FALSE

(* currentDateGroup.datetime !== nextTransactionDayStartsAt *)
StartsNewGroup(group, nextTransactionDayStartsAt) ==
  group.datetime # nextTransactionDayStartsAt

InitActivity ==
  /\ Constructed
  /\ Mounted
  /\ \E all \in TransactionLists : Unrendered(all)

(* From the emptiness test to the start of forEach *)
BeginGrouping ==
  /\ index = -1
  /\ ~transactions.returned
  /\ IF Len(allTransactions) = 0
     THEN /\ transactions' = [returned |-> TRUE, value |-> <<>>]
          /\ UNCHANGED <<groupedTransactions, currentDateGroup, index>>
     ELSE /\ groupedTransactions' = <<NewGroup(getDayStartAt(allTransactions[1].timestamp))>>
          /\ currentDateGroup' = 1
          /\ index' = 0
          /\ UNCHANGED transactions
  /\ UNCHANGED <<allTransactions, bridgeVars, safetyVars>>

(* One call of the forEach callback *)
ForEachStep ==
  /\ index >= 0
  /\ index < Len(allTransactions)
  /\ LET transaction == allTransactions[index + 1]
         pushed == [groupedTransactions EXCEPT
                      ![currentDateGroup].transactions = Append(@, transaction)]
     IN IF index + 1 < Len(allTransactions)
        THEN LET nextTransactionDayStartsAt ==
                   getDayStartAt(allTransactions[index + 2].timestamp)
             IN IF StartsNewGroup(pushed[currentDateGroup], nextTransactionDayStartsAt)
                THEN /\ groupedTransactions' =
                          Append(pushed, NewGroup(nextTransactionDayStartsAt))
                     /\ currentDateGroup' = Len(pushed) + 1
                ELSE /\ groupedTransactions' = pushed
                     /\ UNCHANGED currentDateGroup
        ELSE /\ groupedTransactions' = pushed
             /\ UNCHANGED currentDateGroup
  /\ index' = index + 1
  /\ UNCHANGED <<allTransactions, transactions, bridgeVars, safetyVars>>

(* return groupedTransactions *)
ReturnGroups ==
  /\ index >= 0
  /\ index = Len(allTransactions)
  /\ ~transactions.returned
  /\ transactions' = [returned |-> TRUE, value |-> groupedTransactions]
  /\ UNCHANGED <<allTransactions, groupedTransactions, currentDateGroup, index,
                 bridgeVars, safetyVars>>

NextActivity ==
  \/ BeginGrouping
  \/ ForEachStep
  \/ ReturnGroups

SpecActivity == InitActivity /\ [][NextActivity]_vars

----------------------------------------------------------------------------
(* Properties *)

Allocating == {"connect", "restoreConnection", "onDisconnect"}

Connecting == {"connect", "restoreConnection"}

(* The number of ids allocated up to and including call c. *)
Rank(c) == Cardinality({i \in 1..c : calls[i].op \in Allocating})

RequestsOf(c) == {r \in 1..Len(requests) : requests[r].caller = c}

IsPrefix(s, t) == Len(s) <= Len(t) /\ \A i \in 1..Len(s) : s[i] = t[i]

(* C1: a connect call with a version above the supported one (2) makes no    *)
(* transport request and resolves with a connect_error event carrying the    *)
(* bad-request code, the message 'Unsupported protocol version' and the id   *)
(* that this call allocated (1 for the first allocation of the bridge).      *)
C1_UnsupportedVersionRejectedLocally ==
  \A c \in 1..Len(calls) :
    (calls[c].op = "connect" /\ calls[c].ver > 2) =>
      /\ RequestsOf(c) = {}
      /\ calls[c].status = "resolved"
      /\ calls[c].result =
           [event |-> "connect_error",
            id |-> Rank(c),
            payload |-> [code |-> BAD_REQUEST_ERROR,
                         message |-> "Unsupported protocol version"]]

C1_Witness ==
  \E c \in 1..Len(calls) :
    /\ calls[c].op = "connect" /\ calls[c].ver > 2
    /\ calls[c].result.id = 2
    /\ requests # <<>>

(* C2: every resolved connect or restoreConnection call has run emit exactly *)
(* once, its event went to every listener registered at that moment, and the *)
(* event is the value the call returned.                                     *)
C2_EveryOutcomeEmitted ==
  \A c \in 1..Len(calls) :
    (calls[c].op \in Connecting /\ calls[c].status = "resolved") =>
      /\ calls[c].emitted <= 1
      /\ calls[c].emitted = 0 => calls[c].missed = <<>>
      /\ dispatch.caller = c =>
           /\ dispatch.status = "done"
           /\ dispatch.delivered = dispatch.snapshot
           /\ dispatch.event = calls[c].result

(* C3: the ids allocated by connect, restoreConnection and onDisconnect grow *)
(* strictly in call order, none above the counter, and the counter never     *)
(* decreases.                                                                *)
C3_SingleIncreasingIdSpace ==
  /\ [](/\ \A i, j \in 1..Len(calls) :
             (i < j /\ calls[i].op \in Allocating /\ calls[j].op \in Allocating)
               => calls[i].id < calls[j].id
        /\ \A i \in 1..Len(calls) :
             calls[i].op \in Allocating => calls[i].id \in 1..lastGeneratedId)
  /\ [][lastGeneratedId' >= lastGeneratedId]_vars

C3_Witness ==
  /\ Len(calls) = 2
  /\ calls[1].op = "connect" /\ calls[1].ver > 2
  /\ calls[2].op = "onDisconnect"
  /\ calls[2].id = 2

(* C4: no connect, restoreConnection or send call ends rejected; a rejected  *)
(* transport request ends in a resolved call.                                *)
C4_NeverRejects ==
  \A c \in 1..Len(calls) :
    calls[c].op \in Connecting \cup {"send"} =>
      /\ calls[c].status # "rejected"
      /\ calls[c].outcome.kind = "reject" => calls[c].status = "resolved"

(* C5: the event that a connect or restoreConnection call emits and returns  *)
(* when its request yields no response is the connect_error event with the   *)
(* unknown-error code, the message 'Unknown error' and the id the call       *)
(* allocated when it started, whatever was allocated since.                  *)
UnknownError(c) ==
  [event |-> "connect_error",
   id |-> Rank(c),
   payload |-> [code |-> 0, message |-> "Unknown error"]]

C5_NoResponseGivesUnknownError ==
  \A c \in 1..Len(calls) :
    (calls[c].op \in Connecting /\ calls[c].outcome.kind = "none") =>
      /\ calls[c].emitted = 1
      /\ dispatch.caller = c => dispatch.event = UnknownError(c)
      /\ calls[c].status = "resolved" => calls[c].result = UnknownError(c)
      /\ calls[c].result \in {NoEvent, UnknownError(c)}

C5_Witness ==
  \E c \in 1..Len(calls) :
    /\ calls[c].op \in Connecting /\ calls[c].outcome.kind = "none"
    /\ calls[c].status = "resolved"
    /\ dispatch.caller = c /\ dispatch.delivered # <<>>
    /\ \E c2 \in (c + 1)..Len(calls) : calls[c2].op = "onDisconnect"

(* C6: send resolves with the transport's response unchanged when there is  *)
(* one, and otherwise with the error response of code 0 and message          *)
(* 'Unknown error' that carries the id of the message passed to send.        *)
C6_SendCorrelatesByMessageId ==
  \A c \in 1..Len(calls) :
    (calls[c].op = "send" /\ calls[c].outcome.kind \in {"none", "value"}) =>
      /\ calls[c].status = "resolved"
      /\ calls[c].outcome.kind = "none" =>
           calls[c].result =
             [error |-> [code |-> 0, message |-> "Unknown error"],
              id |-> calls[c].message.id]
      /\ calls[c].outcome.kind = "value" => calls[c].result = calls[c].outcome.value

C6_Witness ==
  \E c \in 1..Len(calls) :
    /\ calls[c].op = "send" /\ calls[c].outcome.kind = "none"
    /\ calls[c].status = "resolved"
    /\ lastGeneratedId > 0
    /\ calls[c].result.id # lastGeneratedId + 1

(* C7: the event emitted and returned for a 'connect' response is that       *)
(* response with its device replaced by the descriptor computed from the     *)
(* navigator; an error response is emitted and returned as it came, with no  *)
(* device field.                                                             *)
ExpectedEvent(c) ==
  LET r == calls[c].outcome.value
  IN IF r.event = "connect"
     THEN [event |-> "connect", id |-> r.id,
           payload |-> [items |-> r.payload.items, device |-> getDeviceInfo(navigator)]]
     ELSE r

C7_DeviceOverwrittenOnSuccess ==
  \A c \in 1..Len(calls) :
    (calls[c].op \in Connecting /\ calls[c].outcome.kind = "value") =>
      /\ calls[c].emitted = 1
      /\ dispatch.caller = c => dispatch.event = ExpectedEvent(c)
      /\ calls[c].status = "resolved" => calls[c].result = ExpectedEvent(c)
      /\ calls[c].outcome.value.event = "connect_error" =>
           "device" \notin DOMAIN ExpectedEvent(c).payload

C7_Witness ==
  \E c \in 1..Len(calls) :
    /\ calls[c].op = "restoreConnection"
    /\ calls[c].outcome.kind = "value"
    /\ calls[c].outcome.value.event = "connect"
    /\ "device" \in DOMAIN calls[c].outcome.value.payload
    /\ calls[c].status = "resolved"
    /\ dispatch.caller = c /\ dispatch.delivered # <<>>
    /\ calls[c].result.payload.device # StaleDevice

(* C8: a callback whose unsubscribe function was invoked before a dispatch   *)
(* began, and that was not registered again since, is not called in that     *)
(* dispatch, whatever the event.                                             *)
C8_UnsubscribedNotCalled ==
  dispatch.removed \cap Range(dispatch.delivered) = {}

(* A second event, a connect or connect_error one, was dispatched after the  *)
(* callback was unsubscribed, and nobody was called.                         *)
C8_Witness ==
  /\ dispatch.status = "done"
  /\ dispatch.removed # {}
  /\ dispatch.delivered = <<>>
  /\ dispatch.event.event \in {"connect", "connect_error"}
  /\ Len(calls) = 2
  /\ calls[1].emitted = 1
  /\ calls[2].emitted = 1

(* The registrations of s other than those of cb, in order. *)
OthersOf(s, cb) == SelectSeq(s, LAMBDA x : x # cb)

(* C9: the function returned by listen(cb) leaves cb unregistered and the    *)
(* other callbacks registered in the same order, and changes nothing when cb *)
(* is not registered.                                                        *)
C9_UnsubscribeRemovesExactlyCallback ==
  [][\A cb \in AllCallbacks :
       Unsubscribe(cb) =>
         /\ cb \notin Range(callbacks')
         /\ OthersOf(callbacks', cb) = OthersOf(callbacks, cb)
         /\ cb \notin Range(callbacks) => callbacks' = callbacks]_vars

C9_Witness ==
  \E cb \in unsubscribed :
    /\ Len(callbacks) = 2
    /\ callbacks[1] # callbacks[2]
    /\ dispatch.status = "running"
    /\ dispatch.snapshot = <<callbacks[1], cb, callbacks[2]>>

(* C10 as stated: once a dispatch is over, every listener registered when it *)
(* began has received the event, the deliveries following registration order *)
(* with one delivery per registration.                                       *)
C10_DeliveredToEverySnapshotListener ==
  dispatch.status \in {"done", "thrown"} =>
    /\ IsPrefix(dispatch.delivered, dispatch.snapshot)
    /\ Range(dispatch.snapshot) \subseteq Range(dispatch.delivered)

(* C10 amended: a dispatch walks the registry as it stood when it began; its *)
(* deliveries are a prefix of that list, in order, and the whole list once   *)
(* it has returned (a listener that throws ends it before).                  *)
C10_DispatchOverSnapshot ==
  /\ [](/\ IsPrefix(dispatch.delivered, dispatch.snapshot)
        /\ dispatch.status = "done" => dispatch.delivered = dispatch.snapshot
        /\ dispatch.status \in {"running", "thrown"} => dispatch.delivered # <<>>)
  /\ [][dispatch'.caller # dispatch.caller => dispatch'.snapshot = callbacks]_vars

(* The second of two listeners is being called although it was unsubscribed *)
(* during this dispatch, and a callback registered meanwhile is not.         *)
C10_Witness ==
  /\ dispatch.status = "running"
  /\ Len(dispatch.snapshot) = 2
  /\ dispatch.delivered = dispatch.snapshot
  /\ dispatch.snapshot[1] # dispatch.snapshot[2]
  /\ dispatch.snapshot[2] \in unsubscribed \ dispatch.removed
  /\ Len(callbacks) = 2
  /\ callbacks[2] \notin Range(dispatch.snapshot)

----------------------------------------------------------------------------
(* Steps, told from the call records *)

(* Call c leaves its await in this step. *)
Resumes(c) ==
  /\ c \in 1..Len(calls)
  /\ calls[c].status = "awaiting"
  /\ calls'[c].status # "awaiting"

(* Call c is an onDisconnect call that ends in this step with the given status. *)
DisconnectEnds(c, status) ==
  /\ c \in 1..Len(calls')
  /\ calls'[c].op = "onDisconnect"
  /\ calls'[c].status = status
  /\ c \in 1..Len(calls) => calls[c].status = "emitting"

(* Call c is a send of method 'disconnect'. *)
SendsDisconnect(c) == calls[c].op = "send" /\ calls[c].message.method = "disconnect"

(* C11: whenever a send call of method 'disconnect' leaves its await, with a *)
(* response, with none or with a rejected request, the page-unload listener  *)
(* is not registered afterwards.                                             *)
C11_DisconnectAlwaysRemovesUnloadListener ==
  [][\A c \in 1..Len(calls) :
       (SendsDisconnect(c) /\ Resumes(c)) => unloadListeners' = 0]_vars

(* The event of onDisconnect call c. *)
DisconnectEvent(c) ==
  [event |-> "disconnect", id |-> Rank(c), payload |-> EmptyPayload]

(* C12 as stated: once an onDisconnect call is over, whichever way it ended, *)
(* every listener registered when it began has received its event and the    *)
(* page-unload listener is not registered.                                   *)
C12_OnDisconnectAlwaysUnregisters ==
  [][\A c \in 1..Len(calls') :
       (DisconnectEnds(c, "resolved") \/ DisconnectEnds(c, "thrown")) =>
         /\ unloadListeners' = 0
         /\ dispatch'.delivered = dispatch'.snapshot]_vars

(* C12 amended: an onDisconnect call takes the next id, makes no transport   *)
(* request and dispatches one disconnect event with that id and an empty     *)
(* payload; when no listener throws, every listener registered when it began *)
(* has received the event and the page-unload listener is not registered     *)
(* once the call returns; when a listener throws, the call ends there and    *)
(* the page-unload listener stays as it was.                                 *)
C12_OnDisconnectEmitsAndUnregisters ==
  /\ [](\A c \in 1..Len(calls) :
          calls[c].op = "onDisconnect" =>
            /\ calls[c].id = Rank(c)
            /\ RequestsOf(c) = {}
            /\ calls[c].emitted = 1
            /\ dispatch.caller = c =>
                 /\ dispatch.event = DisconnectEvent(c)
                 /\ calls[c].status = "resolved" =>
                      dispatch.delivered = dispatch.snapshot)
  /\ [][\A c \in 1..Len(calls') :
          /\ calls'[c].op = "onDisconnect" /\ c > Len(calls) =>
               /\ lastGeneratedId' = lastGeneratedId + 1
               /\ calls'[c].id = lastGeneratedId'
               /\ requests' = requests
               /\ dispatch'.snapshot = callbacks
          /\ DisconnectEnds(c, "resolved") =>
               unloadListeners' = 0 /\ requests' = requests
          /\ DisconnectEnds(c, "thrown") =>
               unloadListeners' = unloadListeners /\ requests' = requests]_vars

(* After a successful connection the wallet disconnected: the listener got   *)
(* the event and the page-unload listener is gone.                           *)
C12_Witness ==
  /\ Len(calls) = 2
  /\ calls[1].op \in Connecting
  /\ calls[1].outcome.kind = "value"
  /\ calls[1].outcome.value.event = "connect"
  /\ calls[2].op = "onDisconnect"
  /\ calls[2].status = "resolved"
  /\ dispatch.caller = 2
  /\ dispatch.delivered # <<>>
  /\ unloadListeners = 0

(* A connect or restoreConnection call receives a 'connect' response in this *)
(* step.                                                                     *)
ConnectedStep ==
  \E c \in 1..Len(calls) :
    /\ calls[c].op \in Connecting
    /\ Resumes(c)
    /\ calls'[c].outcome.kind = "value"
    /\ calls'[c].outcome.value.event = "connect"

(* A send of 'disconnect' goes on after its await, or an onDisconnect call   *)
(* returns, in this step.                                                    *)
DisconnectedStep ==
  \/ \E c \in 1..Len(calls) :
       SendsDisconnect(c) /\ Resumes(c) /\ calls'[c].status = "resolved"
  \/ \E c \in 1..Len(calls') : DisconnectEnds(c, "resolved")

(* C13: at most one page-unload listener is registered.  A step in which a   *)
(* connect or restoreConnection call receives a 'connect' response leaves it *)
(* registered; a step in which a send of 'disconnect' goes on after its      *)
(* await, or an onDisconnect call returns, leaves it unregistered; no other  *)
(* step changes it (so it is registered exactly when the latest of these     *)
(* steps, in completion order, was of the first kind).  A page teardown      *)
(* makes one deactivate request, awaited by no call, when the listener is    *)
(* registered, and no request when it is not.                                *)
C13_UnloadListenerFollowsLastStep ==
  /\ [](unloadListeners \in {0, 1})
  /\ [][/\ ConnectedStep => unloadListeners' = 1
        /\ DisconnectedStep => unloadListeners' = 0
        /\ ~ConnectedStep /\ ~DisconnectedStep => unloadListeners' = unloadListeners
        /\ (unloaded' /\ ~unloaded) =>
             /\ calls' = calls
             /\ requests' =
                  IF unloadListeners = 1
                  THEN Append(requests, [name |-> "tonConnect_deactivate",
                                         args |-> <<>>, caller |-> 0])
                  ELSE requests]_vars

(* connect was called before send('disconnect') and got its 'connect'        *)
(* response after send had resumed: the listener is registered, and the      *)
(* teardown has sent deactivate.                                             *)
C13_Witness ==
  /\ Len(calls) = 2
  /\ calls[1].op = "connect"
  /\ calls[1].outcome.kind = "value"
  /\ calls[1].outcome.value.event = "connect"
  /\ SendsDisconnect(2)
  /\ calls[2].status = "resolved"
  /\ unloadListeners = 1
  /\ unloaded
  /\ requests[Len(requests)].name = "tonConnect_deactivate"

(* C14: connect and restoreConnection calls get their ids, and their         *)
(* requests go out with them, in call order; a call that is suspended at its *)
(* await can go on with any response as soon as no other code runs, whether  *)
(* or not earlier calls are still suspended.  So the event of a later call   *)
(* can reach the listeners and be returned before that of an earlier one.    *)
C14_ResponsesNotSerialized ==
  /\ \A i, j \in 1..Len(calls) :
       (i < j /\ calls[i].op \in Connecting /\ calls[j].op \in Connecting)
         => calls[i].id < calls[j].id
  /\ \A q, r \in 1..Len(requests) :
       (q < r /\ requests[q].caller > 0 /\ requests[r].caller > 0)
         => requests[q].caller < requests[r].caller
  /\ \A c \in 1..Len(calls) :
       (calls[c].op \in Connecting /\ calls[c].status = "awaiting" /\ ~Running) =>
         \A o \in ConnectOutcomes(calls[c].id) :
           ENABLED (ConnectResume(c, o) \/ RestoreResume(c, o))

(* The event of the second call (id 2) has been delivered and returned while *)
(* the first call (id 1) is still suspended.                                 *)
C14_Witness ==
  /\ Len(calls) = 2
  /\ calls[1].op \in Connecting /\ calls[1].status = "awaiting" /\ calls[1].id = 1
  /\ calls[2].op \in Connecting /\ calls[2].status = "resolved"
  /\ calls[2].result.id = 2
  /\ dispatch.caller = 2
  /\ dispatch.event.id = 2
  /\ dispatch.delivered # <<>>
  /\ dispatch.status = "done"

(* The requests of connect and restoreConnection calls. *)
ConnectingRequests == {r \in 1..Len(requests) : requests[r].caller > 0
                         /\ calls[requests[r].caller].op \in Connecting}

(* Every connect call with an accepted version has made one request, with    *)
(* the given name and the arguments (connection request, id of the call);    *)
(* every restoreConnection call has made one request, with the given name    *)
(* and the id of the call as only argument; no two of these requests carry   *)
(* the same id.                                                              *)
OneRequestPerCall(connectName, reconnectName) ==
  /\ \A c \in 1..Len(calls) :
       (calls[c].op = "connect" /\ calls[c].ver <= protocolVersion) =>
         \E r \in 1..Len(requests) :
           /\ RequestsOf(c) = {r}
           /\ requests[r].name = connectName
           /\ Len(requests[r].args) = 2
           /\ requests[r].args[1] \in ConnectRequests
           /\ requests[r].args[2] = calls[c].id
  /\ \A c \in 1..Len(calls) :
       calls[c].op = "restoreConnection" =>
         \E r \in 1..Len(requests) :
           /\ RequestsOf(c) = {r}
           /\ requests[r].name = reconnectName
           /\ requests[r].args = <<calls[c].id>>
  /\ \A q, r \in ConnectingRequests :
       q # r => requests[q].args[Len(requests[q].args)]
                  # requests[r].args[Len(requests[r].args)]

(* C15 as stated: the transport requests are named 'connect' and             *)
(* 'reconnect'.                                                              *)
C15_RequestsNamedAsCalled == OneRequestPerCall("connect", "reconnect")

(* C15 amended: each connect call with an accepted version makes exactly one *)
(* transport request, named 'tonConnect_connect', with the connection        *)
(* request and the call's id as arguments; each restoreConnection call makes *)
(* exactly one, named 'tonConnect_reconnect', with the call's id as its only *)
(* argument and no version check; any two of these requests carry different  *)
(* ids.                                                                      *)
C15_OneRequestPerCall == OneRequestPerCall("tonConnect_connect", "tonConnect_reconnect")

C15_Witness ==
  /\ Len(calls) = 2
  /\ calls[1].op = "restoreConnection"
  /\ calls[2].op = "connect" /\ calls[2].ver = 2
  /\ Len(requests) = 2
  /\ requests[1].args = <<1>>
  /\ requests[2].args[2] = 2

(* C16: when a listener throws, the dispatch ends there: the listeners       *)
(* before it in the list the dispatch walks have received the event, the     *)
(* throwing one is the last to have been called, and no listener after it is *)
(* called for this event, then or later.                                     *)
C16_ThrowInterruptsDispatch ==
  /\ [](\A c \in 1..Len(calls) :
          (dispatch.caller = c /\ calls[c].status = "thrown") =>
            /\ dispatch.status = "thrown"
            /\ dispatch.delivered # <<>>
            /\ IsPrefix(dispatch.delivered, dispatch.snapshot))
  /\ [][\A c \in 1..Len(calls) :
          (dispatch.caller = c /\ calls'[c].status = "thrown") =>
            (dispatch'.caller = c => dispatch'.delivered = dispatch.delivered)]_vars

(* The second of three listeners threw: the first was called before it and   *)
(* the third is not called.                                                  *)
C16_Witness ==
  /\ dispatch.status = "thrown"
  /\ Len(dispatch.snapshot) = 3
  /\ Len(dispatch.delivered) = 2
  /\ dispatch.snapshot[3] \notin Range(dispatch.delivered)
  /\ dispatch.snapshot[1] # dispatch.snapshot[2]

(* The transport name of an application method. *)
SendName(method) ==
  CASE method = "sendTransaction" -> "tonConnect_sendTransaction"
    [] method = "disconnect" -> "tonConnect_disconnect"

(* C17: a send call makes one transport request, named after the method of  *)
(* its message (with the prefix tonConnect_) and with the message as only    *)
(* argument.  Neither the call nor its continuation changes the id counter,  *)
(* the listener registry or the dispatch record (no listener is called), the *)
(* continuation makes no request, and the page-unload listener changes only  *)
(* in the continuation of a send of 'disconnect'.                            *)
C17_SendFrame ==
  /\ [](\A c \in 1..Len(calls) :
          calls[c].op = "send" =>
            \E r \in 1..Len(requests) :
              /\ RequestsOf(c) = {r}
              /\ requests[r].name = SendName(calls[c].message.method)
              /\ requests[r].args = <<calls[c].message>>)
  /\ [][\A c \in 1..Len(calls') :
          calls'[c].op = "send" =>
            /\ c > Len(calls) =>
                 /\ Len(requests') = Len(requests) + 1
                 /\ UNCHANGED <<lastGeneratedId, callbacks, dispatch, unloadListeners>>
            /\ Resumes(c) =>
                 /\ UNCHANGED <<lastGeneratedId, callbacks, dispatch, requests>>
                 /\ unloadListeners' # unloadListeners => SendsDisconnect(c)]_vars

(* A send of sendTransaction has resolved on a connected bridge: the         *)
(* page-unload listener is still registered, the last dispatch is still that *)
(* of the connect call, and the counter is where connect left it.            *)
C17_Witness ==
  /\ Len(calls) = 2
  /\ calls[1].op = "connect"
  /\ calls[2].op = "send"
  /\ calls[2].message.method = "sendTransaction"
  /\ calls[2].status = "resolved"
  /\ unloadListeners = 1
  /\ lastGeneratedId = 1
  /\ dispatch.caller = 1
  /\ dispatch.delivered # <<>>
  /\ Len(requests) = 2

(* The number of registrations of cb in s. *)
Count(s, cb) == Len(SelectSeq(s, LAMBDA x : x = cb))

(* C18: every listen(cb) adds one registration of cb; a dispatch that        *)
(* returns has called cb once per registration it had when the dispatch      *)
(* began; the function returned by any listen(cb) leaves no registration of  *)
(* cb, however many there were, and as many of every other callback as       *)
(* before; and a dispatch begun after that does not call cb.                 *)
C18_RegistrationsOfOneCallback ==
  /\ [](\A cb \in AllCallbacks :
          /\ Count(dispatch.delivered, cb) <= Count(dispatch.snapshot, cb)
          /\ dispatch.status = "done" =>
               Count(dispatch.delivered, cb) = Count(dispatch.snapshot, cb)
          /\ cb \in dispatch.removed => Count(dispatch.delivered, cb) = 0)
  /\ [][\A cb \in AllCallbacks :
          /\ Listen(cb) => Count(callbacks', cb) = Count(callbacks, cb) + 1
          /\ Unsubscribe(cb) =>
               /\ Count(callbacks', cb) = 0
               /\ \A other \in AllCallbacks \ {cb} :
                    Count(callbacks', other) = Count(callbacks, other)
          /\ dispatch'.caller # dispatch.caller =>
               Count(dispatch'.snapshot, cb) = Count(callbacks, cb)]_vars

(* A callback registered twice was called twice in the dispatch that just    *)
(* returned and was then unsubscribed once: both registrations are gone and  *)
(* the other callback is still registered.                                   *)
C18_Witness ==
  \E cb \in unsubscribed \ dispatch.removed :
    /\ dispatch.status = "done"
    /\ Count(dispatch.snapshot, cb) = 2
    /\ Count(dispatch.delivered, cb) = 2
    /\ Len(dispatch.snapshot) = 3
    /\ Len(callbacks) = 1
    /\ callbacks[1] # cb

(* The boxes were all checked at click i. *)
AllAcceptedAt(i) == clicks[i].writedown /\ clicks[i].openWallet /\ clicks[i].canBeStolen

(* C19: a click calls onSubmit exactly when the three boxes were checked at  *)
(* the time of the click, and calls nothing otherwise; the button is         *)
(* disabled exactly when not all three boxes are checked, at every click and *)
(* in every state.                                                           *)
C19_SubmitOnlyWhenAllAccepted ==
  /\ \A i \in 1..Len(clicks) :
       /\ clicks[i].invoked <=> AllAcceptedAt(i)
       /\ clicks[i].disabled <=> ~AllAcceptedAt(i)
  /\ submits = Cardinality({i \in 1..Len(clicks) : AllAcceptedAt(i)})
  /\ isDisabled <=>
       ~(writedownAccepted /\ openWalletAccepted /\ canBeStolenAccepted)

(* A click with two boxes checked did nothing, a click with all three called *)
(* onSubmit, and a box was unchecked again since.                            *)
C19_Witness ==
  /\ Len(clicks) = 2
  /\ clicks[1].writedown /\ clicks[1].openWallet /\ ~clicks[1].canBeStolen
  /\ ~clicks[1].invoked
  /\ clicks[2].invoked
  /\ submits = 1
  /\ ~openWalletAccepted
  /\ isDisabled

RECURSIVE Concat(_)
(* The transactions of the groups, in group order. *)
Concat(groups) ==
  IF groups = <<>> THEN <<>>
  ELSE Head(groups).transactions \o Concat(Tail(groups))

(* C20: the groups the memo returns, concatenated in order, are the filtered *)
(* transactions; no group is empty; every transaction of a group falls in    *)
(* the day the group is dated; two consecutive groups are dated differently; *)
(* and no transactions give no groups.                                       *)
C20_GroupsPartitionTransactions ==
  transactions.returned =>
    LET groups == transactions.value
    IN /\ Concat(groups) = allTransactions
       /\ \A g \in 1..Len(groups) :
            /\ groups[g].transactions # <<>>
            /\ \A t \in 1..Len(groups[g].transactions) :
                 getDayStartAt(groups[g].transactions[t].timestamp) = groups[g].datetime
       /\ \A g \in 1..(Len(groups) - 1) : groups[g].datetime # groups[g + 1].datetime
       /\ allTransactions = <<>> => groups = <<>>

(* Three transactions out of time order gave three groups, the first and     *)
(* the last of the same day.                                                 *)
C20_Witness ==
  /\ transactions.returned
  /\ Len(allTransactions) = 3
  /\ Len(transactions.value) = 3
  /\ transactions.value[1].datetime = transactions.value[3].datetime
  /\ allTransactions[1].timestamp # allTransactions[3].timestamp

====
